---- MODULE Spec2Model ----
(***************************************************************************)
(* Model of zabbix-tagger (src/main.py): main() reads a CSV of rows, and   *)
(* for each row resolves the host group (hostgroup.get), lists its hosts   *)
(* (host.get) and overwrites each host's tags (host.update) with the       *)
(* host's non-managed tags followed by five managed tags built from the    *)
(* row.  The remote system is modelled as a store of host tags that        *)
(* host.update overwrites, plus the failures its answers can show.         *)
(***************************************************************************)
EXTENDS Integers, Sequences, FiniteSets, TLC

\* ---------------------------------------------------------------- bounds
MaxRows == 3      \* longest CSV explored
MaxFaults == 2    \* remote anomalies (errors, missing keys) injected per behaviour
MaxRuns == 2      \* invocations of main() against the same remote system

\* ------------------------------------------------------------ input data
\* The five value columns of a CSV row, in three variants.
RowValues(v) ==
  CASE v = 1 -> <<"France", "Paris1", "P001", "PK9", "5G">>
    [] v = 2 -> <<"Spain", "Madrid2", "M002", "PK7", "LTE">>
    [] OTHER -> <<"Italy", "Rome3", "R003", "PK5", "4G">>

MkRow(g, v) ==
  [groupname |-> g,
   site_country |-> RowValues(v)[1], site_name |-> RowValues(v)[2],
   site_id |-> RowValues(v)[3], park_id |-> RowValues(v)[4],
   technology |-> RowValues(v)[5]]

\* Rows a CSV file is made of.
RowSet ==
  {MkRow("EU-Sites", 1), MkRow("EU-Sites", 2), MkRow("US-Sites", 3), MkRow("Ghost", 1)}

RECURSIVE SeqsUpTo(_, _)
SeqsUpTo(S, n) ==
  IF n = 0 THEN {<<>>}
  ELSE LET shorter == SeqsUpTo(S, n - 1)
       IN shorter \cup {Append(s, x) : s \in shorter, x \in S}

CsvFiles == SeqsUpTo(RowSet, MaxRows)

\* ------------------------------------------------------- remote system
T(k, v) == [tag |-> k, value |-> v]

\* Answer of hostgroup.get filtered by name: "EU-Sites" is held by two groups,
\* "Ghost" by none.
HostGroupTable(name) ==
  CASE name = "EU-Sites" -> <<[groupid |-> "12", name |-> "EU-Sites"],
                              [groupid |-> "13", name |-> "EU-Sites"]>>
    [] name = "US-Sites" -> <<[groupid |-> "20", name |-> "US-Sites"]>>
    [] OTHER -> <<>>

Hosts == {"55", "56", "57", "58"}

\* Hosts of a group in the order host.get returns them; host 56 is in two groups.
GroupHosts(gid) ==
  CASE gid = "12" -> <<"55", "56">>
    [] gid = "13" -> <<"58">>
    [] gid = "20" -> <<"56", "57">>
    [] OTHER -> <<>>

\* Tags stored by the remote system before the first run.
InitialTags ==
  [h \in Hosts |->
     CASE h = "55" -> <<T("OWNER", "ops")>>
       [] h = "56" -> <<T("COUNTRY", "Old"), T("OWNER", "ops"), T("OWNER", "ops"),
                        T("SITE_ID", "X"), T("ENV", "prod"), T("COUNTRY", "Old2")>>
       [] h = "57" -> <<>>
       [] OTHER -> <<T("ENV", "prod"), T("country", "lower")>>]

\* A key a dict does not have.
Missing == "<missing>"

\* ------------------------------------------------------- program state
VARIABLES
  pc,        \* position of main(): config, read_csv, row, hosts, update, done, returned, crashed
  run,       \* which invocation of main() this is
  csv,       \* content of the CSV file
  df,        \* the loaded data frame
  index,     \* 1-based position of the row being processed
  group_id,  \* result of get_group for the row
  records,   \* answer of get_hosts for the row
  hostIdx,   \* position of the inner loop in records["result"]
  hostTags,  \* the remote system's tags per host
  calls,     \* remote calls issued so far, in order
  log,       \* warnings and errors logged so far, in order
  faults     \* remote anomalies injected so far

vars == <<pc, run, csv, df, index, group_id, records, hostIdx, hostTags, calls, log, faults>>

NoRecords == [status |-> 200, hasResult |-> FALSE, result |-> <<>>]

\* ----------------------------------------------------- pure functions
\* update_tag_names
update_tag_names == <<"COUNTRY", "SITE_NAME", "SITE_ID", "PARKID", "TECHNOLOGY">>

Range(s) == {s[i] : i \in DOMAIN s}

new_tags_Swapped(row) ==
  <<T("COUNTRY", row.site_country),
    T("SITE_NAME", row.site_name),
    T("SITE_ID", row.park_id),
    T("PARKID", row.site_id),
    T("TECHNOLOGY", row.technology)>>

\* new_tags built from the row
new_tags(row) ==
  <<T("COUNTRY", row.site_country),
    T("SITE_NAME", row.site_name),
    T("SITE_ID", row.site_id),
    T("PARKID", row.park_id),
    T("TECHNOLOGY", row.technology)>>

existing_tags_KeepAll(record) == record.tags

\* existing_tags: the record's tags that are not in the update list
existing_tags(record) ==
  LET keep(t) == t.tag \notin Range(update_tag_names)
  IN SelectSeq(record.tags, keep)

final_tags_NewFirst(record, row) == new_tags(row) \o existing_tags(record)

\* final_tags = existing_tags + new_tags
final_tags(record, row) == existing_tags(record) \o new_tags(row)

\* response.json().get("result", []) and records.get("result", [])
ResultOf(resp) == IF resp.hasResult THEN resp.result ELSE <<>>

raise_for_status_RpcErrors(resp) == resp.status >= 400 \/ ~resp.hasResult

\* response.raise_for_status(): only the HTTP status decides
raise_for_status(resp) == resp.status >= 400

\* Python's None
None == "<None>"

get_group_Last(resp) ==
  IF ResultOf(resp) # <<>> THEN ResultOf(resp)[Len(ResultOf(resp))].groupid ELSE None

\* get_group after raise_for_status: the first group's id, or None
get_group(resp) ==
  IF ResultOf(resp) # <<>> THEN ResultOf(resp)[1].groupid ELSE None

Truthy_Always(x) == TRUE

\* truth value of a group id in "if not group_id"
Truthy(x) == x # None /\ x # ""

RecordAt_Reversed(resp, k) == ResultOf(resp)[Len(ResultOf(resp)) + 1 - k]

\* the k-th record of "for record in records.get('result', [])"
RecordAt(resp, k) == ResultOf(resp)[k]

RowHandlerCatches_KeyErrorOnly(exc) == exc = "KeyError"

RowHandlerCatches_TransportOnly(exc) == exc = "RequestException"

\* except Exception: the classes the handler of the row loop catches
RowHandlerCatches(exc) == exc \in {"RequestException", "KeyError"}

\* One remote call: the request (method, argument, tags sent) and its response,
\* stamped with the run and the row it was made for.
Call(method, arg, tags, resp) ==
  [run |-> run, row |-> index, method |-> method, arg |-> arg, tags |-> tags, resp |-> resp]

Entry(level, where) == [run |-> run, row |-> index, level |-> level, where |-> where]

\* ------------------------------------------------- remote responses
\* What the remote system can answer to a request whose regular result is r:
\* an HTTP error, a 2xx body without a "result" key, or a 2xx body with r.
\* Anything but the regular answer uses up one of the MaxFaults anomalies.
Responses(r) ==
  {[status |-> 200, hasResult |-> TRUE, result |-> r]}
  \cup (IF faults < MaxFaults
        THEN {[status |-> 500, hasResult |-> FALSE, result |-> <<>>],
              [status |-> 200, hasResult |-> FALSE, result |-> <<>>]}
        ELSE {})

IsAnomaly(resp) == resp.status >= 400 \/ ~resp.hasResult

\* host.get's regular result for a group: one record per host with its tags;
\* drop = k > 0 leaves the k-th record without its "hostid" key.
HostRecords(gid, drop) ==
  [k \in 1..Len(GroupHosts(gid)) |->
     [hostid |-> IF k = drop THEN Missing ELSE GroupHosts(gid)[k],
      tags |-> hostTags[GroupHosts(gid)[k]]]]

\* -------------------------------------------------------------- actions
Init ==
  /\ pc = "config"
  /\ run = 1
  /\ csv \in CsvFiles
  /\ df = <<>>
  /\ index = 1
  /\ group_id = None
  /\ records = NoRecords
  /\ hostIdx = 1
  /\ hostTags = InitialTags
  /\ calls = <<>>
  /\ log = <<>>
  /\ faults = 0

\* main(): config.read and the three keys; any exception logs and returns
LoadConfig ==
  /\ pc = "config"
  /\ \E ok \in BOOLEAN :
       IF ok
       THEN pc' = "read_csv" /\ log' = log
       ELSE pc' = "returned" /\ log' = Append(log, Entry("ERROR", "config"))
  /\ UNCHANGED <<run, csv, df, index, group_id, records, hostIdx, hostTags, calls, faults>>

\* main(): pd.read_csv; any exception logs and returns
ReadCsv ==
  /\ pc = "read_csv"
  /\ \E ok \in BOOLEAN :
       IF ok
       THEN pc' = "row" /\ df' = csv /\ log' = log
       ELSE pc' = "returned" /\ df' = df /\ log' = Append(log, Entry("ERROR", "csv"))
  /\ index' = 1
  /\ UNCHANGED <<run, csv, group_id, records, hostIdx, hostTags, calls, faults>>

\* except Exception as e: logger.error(...); continue.  An exception the
\* handler does not catch leaves main().
RowException(exc, where) ==
  IF RowHandlerCatches(exc)
  THEN /\ log' = log \o <<Entry("ERROR", where), Entry("ERROR", "row")>>
       /\ index' = index + 1
       /\ pc' = "row"
  ELSE /\ log' = Append(log, Entry("ERROR", where))
       /\ index' = index
       /\ pc' = "crashed"

\* Loop body, first part: get_group(row['groupname']) and the skip of a row
\* whose group is not found.
ResolveGroup ==
  /\ pc = "row"
  /\ index <= Len(df)
  /\ \E resp \in Responses(HostGroupTable(df[index].groupname)) :
       /\ faults' = faults + (IF IsAnomaly(resp) THEN 1 ELSE 0)
       /\ calls' = Append(calls, Call("hostgroup.get", df[index].groupname, <<>>, resp))
       /\ IF raise_for_status(resp)
          THEN RowException("RequestException", "get_group") /\ group_id' = group_id
          ELSE /\ group_id' = get_group(resp)
               /\ IF ~Truthy(get_group(resp))
                  THEN /\ log' = Append(log, Entry("WARNING", "no_group"))
                       /\ index' = index + 1
                       /\ pc' = "row"
                  ELSE /\ log' = log
                       /\ index' = index
                       /\ pc' = "hosts"
  /\ UNCHANGED <<run, csv, df, records, hostIdx, hostTags>>

\* Loop body, second part: get_hosts(group_id)
RetrieveHosts ==
  /\ pc = "hosts"
  /\ \E drop \in 0..Len(GroupHosts(group_id)) :
     \E resp \in Responses(HostRecords(group_id, drop)) :
       /\ drop > 0 => (faults < MaxFaults /\ ~IsAnomaly(resp))
       /\ faults' = faults + (IF IsAnomaly(resp) \/ drop > 0 THEN 1 ELSE 0)
       /\ calls' = Append(calls, Call("host.get", group_id, <<>>, resp))
       /\ IF raise_for_status(resp)
          THEN /\ RowException("RequestException", "get_hosts")
               /\ UNCHANGED <<records, hostIdx>>
          ELSE /\ records' = resp
               /\ hostIdx' = 1
               /\ pc' = "update"
               /\ UNCHANGED <<log, index>>
  /\ UNCHANGED <<run, csv, df, group_id, hostTags>>

\* Loop body, third part: one iteration of "for record in records.get(...)":
\* merge the tags, read record['hostid'], update_record.
UpdateHost ==
  /\ pc = "update"
  /\ hostIdx <= Len(ResultOf(records))
  /\ LET record == RecordAt(records, hostIdx)
         tags == final_tags(record, df[index])
     IN IF record.hostid = Missing
        THEN /\ RowException("KeyError", "hostid")
             /\ UNCHANGED <<hostIdx, hostTags, calls, faults>>
        ELSE \E resp \in Responses(<<>>) :
               /\ faults' = faults + (IF IsAnomaly(resp) THEN 1 ELSE 0)
               /\ calls' = Append(calls, Call("host.update", record.hostid, tags, resp))
               /\ hostTags' = IF resp.status = 200 /\ resp.hasResult
                              THEN [hostTags EXCEPT ![record.hostid] = tags]
                              ELSE hostTags
               /\ IF raise_for_status(resp)
                  THEN RowException("RequestException", "update_record") /\ hostIdx' = hostIdx
                  ELSE /\ hostIdx' = hostIdx + 1
                       /\ UNCHANGED <<log, index, pc>>
  /\ UNCHANGED <<run, csv, df, group_id, records>>

\* The inner loop is exhausted: on to the next row.
EndRow ==
  /\ pc = "update"
  /\ hostIdx > Len(ResultOf(records))
  /\ index' = index + 1
  /\ pc' = "row"
  /\ UNCHANGED <<run, csv, df, group_id, records, hostIdx, hostTags, calls, log, faults>>

\* The row loop is exhausted: "Data processing script completed".
Complete ==
  /\ pc = "row"
  /\ index > Len(df)
  /\ pc' = "done"
  /\ UNCHANGED <<run, csv, df, index, group_id, records, hostIdx, hostTags, calls, log, faults>>

\* The script is started again with the same config and CSV against the
\* remote system as the previous run left it.
Rerun ==
  /\ pc = "done"
  /\ run < MaxRuns
  /\ run' = run + 1
  /\ pc' = "config"
  /\ df' = <<>>
  /\ index' = 1
  /\ group_id' = None
  /\ records' = NoRecords
  /\ hostIdx' = 1
  /\ UNCHANGED <<csv, hostTags, calls, log, faults>>

Next ==
  \/ LoadConfig
  \/ ReadCsv
  \/ ResolveGroup
  \/ RetrieveHosts
  \/ UpdateHost
  \/ EndRow
  \/ Complete

\* One invocation of main().
Spec == Init /\ [][Next]_vars

NextRerun ==
  \/ Next
  \/ Rerun

\* main() invoked up to MaxRuns times, one run after the other.
SpecRerun == Init /\ [][NextRerun]_vars

\* The script is sequential and its calls block until they return: a step
\* that can be taken is taken.
FairSpec == Spec /\ WF_vars(Next)

\* ------------------------------------------------- vocabulary of the claims
ManagedKeys == {"COUNTRY", "SITE_NAME", "SITE_ID", "PARKID", "TECHNOLOGY"}

IsManaged(t) == t.tag \in ManagedKeys
IsNotManaged(t) == t.tag \notin ManagedKeys

ManagedOf(tags) == SelectSeq(tags, IsManaged)
NonManagedOf(tags) == SelectSeq(tags, IsNotManaged)

\* The managed tags a row asks for.
Desired(row) ==
  <<[tag |-> "COUNTRY", value |-> row.site_country],
    [tag |-> "SITE_NAME", value |-> row.site_name],
    [tag |-> "SITE_ID", value |-> row.site_id],
    [tag |-> "PARKID", value |-> row.park_id],
    [tag |-> "TECHNOLOGY", value |-> row.technology]>>

CallsOf(method) == {i \in DOMAIN calls : calls[i].method = method}
Updates == CallsOf("host.update")

SameRow(i, j) == calls[i].run = calls[j].run /\ calls[i].row = calls[j].row

Http2xx(i) == calls[i].resp.status < 400
Stored(i) == Http2xx(i) /\ calls[i].resp.hasResult

\* The host.get call of the row an update belongs to, and the record of the
\* updated host in its answer.
HostGetOf(i) == CHOOSE j \in CallsOf("host.get") : SameRow(i, j)
RecordSeen(i) ==
  LET res == calls[HostGetOf(i)].resp.result
  IN res[CHOOSE k \in DOMAIN res : res[k].hostid = calls[i].arg]

\* The row (run r, position w) has been left by the loop.
RowIsOver(r, w) ==
  \/ r < run
  \/ r = run /\ pc \in {"done", "crashed"}
  \/ r = run /\ pc \in {"row", "hosts", "update"} /\ w < index

RowResolved(r, w) ==
  \E j \in CallsOf("hostgroup.get") : calls[j].run = r /\ calls[j].row = w

\* Once the loop is past row w + 1 of run r, that row's group was looked up.
NextRowProcessed(r, w) ==
  (w < Len(csv) /\ RowIsOver(r, w + 1)) => RowResolved(r, w + 1)

\* Call i is the last call made for its row.
LastOfRow(i) == \A j \in DOMAIN calls : SameRow(i, j) => j <= i

Logged(r, w, level) ==
  \E e \in DOMAIN log : log[e].run = r /\ log[e].row = w /\ log[e].level = level

Max(S) == CHOOSE x \in S : \A y \in S : y <= x

\* The first group the remote system holds under the name of row w, and the
\* hosts of that group.
GroupNamedBy(w) ==
  IF HostGroupTable(csv[w].groupname) = <<>> THEN None
  ELSE HostGroupTable(csv[w].groupname)[1].groupid
HostsOfRow(w) == Range(GroupHosts(GroupNamedBy(w)))

\* C1: every host.update sends the host's non-managed tags as host.get returned
\* them, unchanged, in their order and with their duplicates, and after them
\* only managed tags.
C1_NonManagedPreserved ==
  \A i \in Updates :
    LET sent == calls[i].tags
        kept == NonManagedOf(RecordSeen(i).tags)
    IN /\ Len(sent) >= Len(kept)
       /\ SubSeq(sent, 1, Len(kept)) = kept
       /\ \A k \in (Len(kept) + 1)..Len(sent) : IsManaged(sent[k])

\* An update of a host whose tags hold a duplicated non-managed tag and a
\* managed tag in front of a non-managed one.
C1_Witness ==
  \E i \in Updates :
    LET t == RecordSeen(i).tags
    IN /\ \E a, b \in DOMAIN t : a < b /\ t[a] = t[b] /\ IsNotManaged(t[a])
       /\ \E c, d \in DOMAIN t : c < d /\ IsManaged(t[c]) /\ IsNotManaged(t[d])

\* C2: every host.update carries exactly one entry per managed key, in the
\* fixed key order, valued from the row's five columns, whatever managed
\* entries the host had.
C2_ExactlyOnePerManagedKey ==
  \A i \in Updates : ManagedOf(calls[i].tags) = Desired(csv[calls[i].row])

\* Updates of a host that had two entries for a managed key, and of a host
\* that had none.
C2_Witness ==
  /\ \E i \in Updates :
       \E a, b \in DOMAIN RecordSeen(i).tags :
         /\ a < b
         /\ RecordSeen(i).tags[a].tag = "COUNTRY"
         /\ RecordSeen(i).tags[b].tag = "COUNTRY"
  /\ \E i \in Updates : ManagedOf(RecordSeen(i).tags) = <<>>

\* C7: calls are issued row after row in CSV order; a row's calls are its
\* hostgroup.get, then its host.get, then its host.update calls in the order
\* host.get returned the hosts.
C7_CallOrder ==
  /\ \A i \in DOMAIN calls :
       i > 1 => \/ calls[i - 1].run < calls[i].run
                \/ calls[i - 1].run = calls[i].run /\ calls[i - 1].row <= calls[i].row
  /\ \A i \in DOMAIN calls :
       CASE calls[i].method = "hostgroup.get" ->
              i > 1 => ~SameRow(i, i - 1)
         [] calls[i].method = "host.get" ->
              i > 1 /\ SameRow(i, i - 1) /\ calls[i - 1].method = "hostgroup.get"
         [] OTHER ->
              /\ i > 1 /\ SameRow(i, i - 1)
              /\ calls[i - 1].method \in {"host.get", "host.update"}
              /\ LET g == HostGetOf(i)
                 IN /\ g < i
                    /\ i - g \in DOMAIN calls[g].resp.result
                    /\ calls[i].arg = calls[g].resp.result[i - g].hostid

\* Two updates of one row followed by a call of a later row.
C7_Witness ==
  \E i, j \in DOMAIN calls :
    /\ 1 < i /\ i < j
    /\ calls[i].method = "host.update" /\ calls[i - 1].method = "host.update"
    /\ calls[j].run = calls[i].run /\ calls[j].row > calls[i].row

\* C3: after a failed host.update of host A, a host.update is still issued for
\* every host that host.get returned after A for the same row.
C3_RemainingHostsAttempted ==
  \A i \in Updates :
    (~Http2xx(i) /\ RowIsOver(calls[i].run, calls[i].row)) =>
      LET g == HostGetOf(i)
          res == calls[g].resp.result
      IN \A k \in DOMAIN res :
           (k > i - g /\ res[k].hostid # Missing) =>
             \E j \in Updates : j > i /\ SameRow(i, j) /\ calls[j].arg = res[k].hostid

\* C4: a hostgroup.get that answers an empty result is the row's only call,
\* logs a warning and no error, and the loop goes on with the next row.
C4_GroupNotFoundSkipsRow ==
  \A i \in CallsOf("hostgroup.get") :
    (Stored(i) /\ calls[i].resp.result = <<>>) =>
      /\ \A j \in DOMAIN calls : SameRow(i, j) => j = i
      /\ Logged(calls[i].run, calls[i].row, "WARNING")
      /\ ~Logged(calls[i].run, calls[i].row, "ERROR")
      /\ RowIsOver(calls[i].run, calls[i].row)
      /\ pc # "crashed"
      /\ NextRowProcessed(calls[i].run, calls[i].row)

\* A group that was not found, and the lookup of the next row's group after it.
C4_Witness ==
  \E i \in CallsOf("hostgroup.get") :
    /\ Stored(i) /\ calls[i].resp.result = <<>>
    /\ i + 1 \in DOMAIN calls
    /\ calls[i + 1].method = "hostgroup.get"
    /\ calls[i + 1].row = calls[i].row + 1

\* C8: a 2xx answer without a "result" key is an empty result: after such a
\* hostgroup.get the row is skipped with a warning, after such a host.get the
\* row issues no host.update; no error is logged and the next row is processed.
C8_MissingResultIsEmpty ==
  \A i \in CallsOf("hostgroup.get") \cup CallsOf("host.get") :
    (Http2xx(i) /\ ~calls[i].resp.hasResult) =>
      /\ LastOfRow(i)
      /\ ~Logged(calls[i].run, calls[i].row, "ERROR")
      /\ calls[i].method = "hostgroup.get" =>
           (Logged(calls[i].run, calls[i].row, "WARNING")
            /\ RowIsOver(calls[i].run, calls[i].row))
      /\ pc # "crashed"
      /\ NextRowProcessed(calls[i].run, calls[i].row)

\* Both cases in one run, each followed by the next row's lookup.
C8_Witness ==
  \E i \in CallsOf("hostgroup.get") : \E j \in CallsOf("host.get") :
    /\ Http2xx(i) /\ ~calls[i].resp.hasResult
    /\ Http2xx(j) /\ ~calls[j].resp.hasResult
    /\ RowResolved(calls[i].run, calls[i].row + 1)
    /\ RowResolved(calls[j].run, calls[j].row + 1)

\* The position of the first record without "hostid" in a host.get answer.
FirstMissing(res) ==
  CHOOSE k \in DOMAIN res :
    res[k].hostid = Missing /\ \A m \in 1..(k - 1) : res[m].hostid # Missing

\* C9: a host record without "hostid" gets no host.update; once the loop
\* reaches it an error is logged for the row, main() goes on, and the next
\* row is processed.
C9_RecordWithoutIdFailsLoudly ==
  \A g \in CallsOf("host.get") :
    (Stored(g) /\ \E k \in DOMAIN calls[g].resp.result :
                     calls[g].resp.result[k].hostid = Missing) =>
      LET k == FirstMissing(calls[g].resp.result)
          reached == \A m \in 1..(k - 1) :
                       g + m \in DOMAIN calls /\ SameRow(g, g + m) /\ Http2xx(g + m)
      IN /\ \A j \in Updates : SameRow(g, j) => (j - g < k /\ calls[j].arg # Missing)
         /\ (reached /\ RowIsOver(calls[g].run, calls[g].row)) =>
              \E e \in DOMAIN log :
                log[e] = [run |-> calls[g].run, row |-> calls[g].row,
                          level |-> "ERROR", where |-> "hostid"]
         /\ pc # "crashed"
         /\ NextRowProcessed(calls[g].run, calls[g].row)

\* The record without id came second: the first host was updated, the error
\* was logged, and the next row's group was looked up.
C9_Witness ==
  \E g \in CallsOf("host.get") :
    /\ Stored(g)
    /\ calls[g].resp.result # <<>>
    /\ calls[g].resp.result[Len(calls[g].resp.result)].hostid = Missing
    /\ \E e \in DOMAIN log : log[e].row = calls[g].row /\ log[e].where = "hostid"
    /\ \E j \in Updates : SameRow(g, j)
    /\ RowResolved(calls[g].run, calls[g].row + 1)

\* The tags the remote system holds for host h once run r is over, read from
\* the updates it stored.
TagsAfter(r, h) ==
  LET S == {i \in Updates : calls[i].run <= r /\ calls[i].arg = h /\ Stored(i)}
  IN IF S = {} THEN InitialTags[h] ELSE calls[Max(S)].tags

\* C5: a second run with the same CSV sends for every row and host the tags
\* the first run sent, no update ever carries more than one entry per managed
\* key, and after two failure-free runs every host holds the tags it held
\* after the first.
C5_Idempotent ==
  /\ \A i, j \in Updates :
       (calls[i].run < calls[j].run /\ calls[i].row = calls[j].row
        /\ calls[i].arg = calls[j].arg) => calls[i].tags = calls[j].tags
  /\ \A i \in Updates :
       \A key \in ManagedKeys :
         Cardinality({k \in DOMAIN calls[i].tags : calls[i].tags[k].tag = key}) = 1
  /\ (pc = "done" /\ run > 1 /\ faults = 0) =>
       \A h \in Hosts : hostTags[h] = TagsAfter(run - 1, h)

\* A failure-free second run is over, in which a host was updated for two rows
\* with different values.
C5_Witness ==
  /\ pc = "done" /\ run = 2 /\ faults = 0
  /\ \E i, j \in Updates :
       /\ calls[i].run = 2 /\ calls[j].run = 2
       /\ calls[i].arg = calls[j].arg
       /\ calls[i].tags # calls[j].tags
  /\ \E h \in Hosts : hostTags[h] # InitialTags[h]

\* C6: no failure of a remote call aborts the run: no error leaves the loop,
\* a completed run has looked up the group of every row, and a run that has
\* entered the loop reaches its completion.
C6_NoRemoteFailureAborts ==
  /\ [](pc # "crashed")
  /\ [](pc = "done" => \A w \in 1..Len(csv) : RowResolved(run, w))
  /\ (pc = "row") ~> (pc = "done")

\* A run completed although calls of two different rows failed.
C6_Witness ==
  /\ pc = "done"
  /\ \E i, j \in DOMAIN calls :
       /\ ~Http2xx(i) /\ ~Http2xx(j)
       /\ calls[i].row < calls[j].row
       /\ calls[j].row < Len(csv)

\* C10 as stated: after a failure-free run, every host of a group that several
\* rows name holds the managed tags of the last row naming that group, and its
\* non-managed tags as before the run.
C10_LastRowOfGroupWins ==
  (pc = "done" /\ faults = 0) =>
    \A w \in DOMAIN csv :
      LET same == {v \in DOMAIN csv : csv[v].groupname = csv[w].groupname}
      IN Cardinality(same) > 1 =>
           \A h \in HostsOfRow(w) :
             /\ ManagedOf(hostTags[h]) = Desired(csv[Max(same)])
             /\ NonManagedOf(hostTags[h]) = NonManagedOf(InitialTags[h])

\* C10 amended: after a failure-free run, every host of a group named by
\* some row holds the managed tags of the last row whose group contains the
\* host, one entry per key, and its non-managed tags as before the run.
C10_LastRowOfHostWins ==
  (pc = "done" /\ faults = 0) =>
    \A h \in Hosts :
      LET rows == {w \in DOMAIN csv : h \in HostsOfRow(w)}
      IN rows # {} =>
           /\ ManagedOf(hostTags[h]) = Desired(csv[Max(rows)])
           /\ NonManagedOf(hostTags[h]) = NonManagedOf(InitialTags[h])

\* A failure-free run is over in which two rows with different values named
\* one group and a later row named another group sharing a host with it.
C10_Witness ==
  /\ pc = "done" /\ faults = 0
  /\ \E u, v, w \in DOMAIN csv :
       /\ u < v /\ v < w
       /\ csv[u].groupname = csv[v].groupname
       /\ Desired(csv[u]) # Desired(csv[v])
       /\ csv[w].groupname # csv[v].groupname
       /\ HostsOfRow(v) \cap HostsOfRow(w) # {}

====
